---- MODULE Spec2Model ----
(***************************************************************************)
(* Verification model of the AI business server:                           *)
(*   - the LLM reply recovery functions (parseJSONResponse of the          *)
(*     marketing and analytics services, and the service methods that      *)
(*     parse a model reply themselves);                                    *)
(*   - the Lead engagement engine (calculateEngagementScore, addActivity)  *)
(*     and the lead routes that create, update and record on a Lead;       *)
(*   - the KPI value update and its trend;                                 *)
(*   - the generation of the four images of a website.                     *)
(*                                                                         *)
(* Texts are sequences of characters; a character is a string naming it.   *)
(* Scores are exact rationals [n, d] (the code computes them in doubles).  *)
(* The clock counts whole days.                                            *)
(***************************************************************************)
EXTENDS Integers, Sequences, FiniteSets, TLC

VARIABLES
    reply,      \* the model's raw reply handed to a service method (None: undefined)
    pc,         \* "start" before the service method ran, "done" after
    svc,        \* the method that ran
    outcome,    \* what the method gave its caller: a value or a thrown error
    candidate,  \* jsonMatch[0], the text between the first { and the last }
    attempts,   \* the texts handed to JSON.parse during the call, in order
    lead,       \* the Lead document in memory
    now,        \* Date.now(), in days
    calls,      \* the types of the addActivity calls made so far
    kpi,        \* the stored KPI and the update requests in flight
    img,        \* the run of generateWebsiteImages
    db,         \* the leads collection: the one Lead of the client, once stored
    reqs,       \* the lead requests in flight, one slot per connection
    api,        \* what the clients of the lead routes have been told so far
    chat,       \* the chatbot: conversation histories, chat sessions, calls in flight
    web,        \* the website routes: users, the website, the requests in flight
    gen,        \* the image generation: the request and the run of generateImage
    rec         \* the image record and the generate-from-prompt request

vars ==
    <<reply, pc, svc, outcome, candidate, attempts, lead, now, calls,
      kpi, img, db, reqs, api, chat, web, gen, rec>>

recoverVars == <<reply, pc, svc, outcome, candidate, attempts>>
leadVars == <<lead, now, calls>>
apiVars == <<db, reqs, api>>
sideVars == <<chat, web, gen, rec>>

\* an optional text: undefined, null or a failed match have no text
None == [defined |-> FALSE, text |-> <<>>]
Some(s) == [defined |-> TRUE, text |-> s]

-----------------------------------------------------------------------------
(* Bounds of the model *)

MaxLen == 3        \* length of the free-form replies
MaxLog == 2        \* addActivity calls per run
MaxCount == 2      \* counters a client supplies at creation
MaxLate == 1       \* days past the recency horizon the clock can reach

-----------------------------------------------------------------------------
(* Characters and texts *)

LF == "\n"          \* U+000A: a control character below 0x20, and white space
DEL == "DEL"        \* U+007F: in the 0x7F-0x9F range, not white space
QUOTE == "\""
BSLASH == "\\"
TICK == "BT"         \* U+0060, the backtick

\* \s and String.prototype.trim, on the characters of the model
WhiteSpace == {" ", LF}

\* [\u0000-\u001F\u007F-\u009F], on the characters of the model
ControlChars == {LF, DEL}

DigitChars == <<"0", "1", "2", "3", "4", "5", "6", "7", "8", "9">>

IsDigit(c) == \E k \in 1..10 : DigitChars[k] = c

DigitValue(c) == (CHOOSE k \in 1..10 : DigitChars[k] = c) - 1

RECURSIVE TrimLeft(_)
TrimLeft(s) ==
    IF s # <<>> /\ Head(s) \in WhiteSpace THEN TrimLeft(Tail(s)) ELSE s

RECURSIVE TrimRight(_)
TrimRight(s) ==
    IF s # <<>> /\ s[Len(s)] \in WhiteSpace
    THEN TrimRight(SubSeq(s, 1, Len(s) - 1))
    ELSE s

\* String.prototype.trim
Trim(s) == TrimRight(TrimLeft(s))

\* does text s hold the text p at position i
HasAt(s, p, i) ==
    /\ i + Len(p) - 1 <= Len(s)
    /\ \A k \in 1..Len(p) : s[i + k - 1] = p[k]

RECURSIVE SkipWs(_, _)
SkipWs(s, i) ==
    IF i <= Len(s) /\ s[i] \in WhiteSpace THEN SkipWs(s, i + 1) ELSE i

\* s.replace(/<marker>\s*/g, ""): every occurrence of the marker, left to
\* right and not overlapping, is removed with the white space after it
RECURSIVE StripMarker(_, _, _)
StripMarker(s, marker, i) ==
    IF i > Len(s) THEN <<>>
    ELSE IF HasAt(s, marker, i)
         THEN StripMarker(s, marker, SkipWs(s, i + Len(marker)))
         ELSE <<s[i]>> \o StripMarker(s, marker, i + 1)

\* s.replace(/<marker>\n?/g, ""): the marker and at most one line feed after it
RECURSIVE StripMarkerLine(_, _, _)
StripMarkerLine(s, marker, i) ==
    IF i > Len(s) THEN <<>>
    ELSE IF HasAt(s, marker, i)
         THEN LET j == i + Len(marker)
              IN  StripMarkerLine(s, marker,
                                  IF j <= Len(s) /\ s[j] = LF THEN j + 1 ELSE j)
         ELSE <<s[i]>> \o StripMarkerLine(s, marker, i + 1)

FenceJson == <<TICK, TICK, TICK, "j", "s", "o", "n">>
Fence == <<TICK, TICK, TICK>>

\* the two fence replacements of parseJSONResponse, the tagged opener first
StripFences(s) == StripMarker(StripMarker(s, FenceJson, 1), Fence, 1)

\* the fence replacements of generateWebsiteContent
StripFenceLines(s) == StripMarkerLine(StripMarkerLine(s, FenceJson, 1), Fence, 1)

\* removal of the characters U+0000-U+001F and U+007F-U+009F
RemoveControlChars(s) == SelectSeq(s, LAMBDA c : c \notin ControlChars)

\* replacement of every line feed: a line feed becomes a backslash and an n
RECURSIVE EscapeNewlines(_)
EscapeNewlines(s) ==
    IF s = <<>> THEN <<>>
    ELSE (IF Head(s) = LF THEN <<BSLASH, "n">> ELSE <<Head(s)>>)
         \o EscapeNewlines(Tail(s))

FirstIndex(s, c) ==
    IF \E i \in 1..Len(s) : s[i] = c
    THEN CHOOSE i \in 1..Len(s) : s[i] = c /\ \A j \in 1..(i - 1) : s[j] # c
    ELSE 0

LastIndex(s, c) ==
    IF \E i \in 1..Len(s) : s[i] = c
    THEN CHOOSE i \in 1..Len(s) : s[i] = c /\ \A j \in (i + 1)..Len(s) : s[j] # c
    ELSE 0

\* a lazy match: the leftmost { and the first } after it
JsonMatchLazy(s) ==
    LET a == FirstIndex(s, "{")
        b == IF a > 0 THEN a + FirstIndex(SubSeq(s, a + 1, Len(s)), "}") ELSE 0
    IN  IF a > 0 /\ b > a THEN Some(SubSeq(s, a, b)) ELSE None

\* s.match(/\{[\s\S]*\}/): the leftmost { and, greedily, the last } after it;
\* None when there is no such pair
JsonMatch(s) ==
    LET a == FirstIndex(s, "{")
        b == LastIndex(s, "}")
    IN  IF a > 0 /\ b > a THEN Some(SubSeq(s, a, b)) ELSE None

-----------------------------------------------------------------------------
(* JSON values, JSON.parse and JSON.stringify on the characters of the model:
   objects, strings with the escapes \" \\ \n, and unsigned integers. *)

Num(n) == [t |-> "num", n |-> n, s |-> <<>>, m |-> <<>>]
Str(s) == [t |-> "str", n |-> 0, s |-> s, m |-> <<>>]
Obj(m) == [t |-> "obj", n |-> 0, s |-> <<>>, m |-> m]

\* an object is a function from its keys to its values
EmptyMembers == <<>>
PutMember(m, k, v) ==
    [x \in (DOMAIN m) \cup {k} |-> IF x = k THEN v ELSE m[x]]

ParseFail == [ok |-> FALSE, v |-> Num(0), i |-> 0]
ParseOk(v, i) == [ok |-> TRUE, v |-> v, i |-> i]

\* the character an escape sequence \c stands for
IsEscape(c) == c \in {QUOTE, BSLASH, "n"}
Unescape(c) == IF c = "n" THEN LF ELSE c

\* the characters of a string literal from position i (after the opening quote)
RECURSIVE ParseStringBody(_, _, _)
ParseStringBody(s, i, acc) ==
    IF i > Len(s) THEN ParseFail
    ELSE IF s[i] = QUOTE THEN ParseOk(Str(acc), i + 1)
    ELSE IF s[i] = BSLASH
         THEN IF i + 1 <= Len(s) /\ IsEscape(s[i + 1])
              THEN ParseStringBody(s, i + 2, Append(acc, Unescape(s[i + 1])))
              ELSE ParseFail
    ELSE IF s[i] = LF THEN ParseFail     \* raw characters below 0x20 are illegal
    ELSE ParseStringBody(s, i + 1, Append(acc, s[i]))

RECURSIVE ParseDigits(_, _, _)
ParseDigits(s, i, acc) ==
    IF i <= Len(s) /\ IsDigit(s[i])
    THEN ParseDigits(s, i + 1, 10 * acc + DigitValue(s[i]))
    ELSE ParseOk(Num(acc), i)

\* a number: 0, or a nonzero digit followed by digits
ParseNumber(s, i) ==
    IF s[i] = "0" THEN ParseOk(Num(0), i + 1) ELSE ParseDigits(s, i, 0)

RECURSIVE ParseValue(_, _)
RECURSIVE ParseMembers(_, _, _)

\* the members of an object from position i, which holds the quote of a key
ParseMembers(s, i, acc) ==
    IF i > Len(s) \/ s[i] # QUOTE THEN ParseFail
    ELSE LET key == ParseStringBody(s, i + 1, <<>>)
             c == SkipWs(s, key.i)
         IN  IF ~key.ok \/ c > Len(s) \/ s[c] # ":" THEN ParseFail
             ELSE LET val == ParseValue(s, c + 1)
                      e == SkipWs(s, val.i)
                      acc2 == PutMember(acc, key.v.s, val.v)
                  IN  IF ~val.ok \/ e > Len(s) THEN ParseFail
                      ELSE IF s[e] = "}" THEN ParseOk(Obj(acc2), e + 1)
                      ELSE IF s[e] = "," THEN ParseMembers(s, SkipWs(s, e + 1), acc2)
                      ELSE ParseFail

ParseValue(s, i0) ==
    LET i == SkipWs(s, i0)
    IN  IF i > Len(s) THEN ParseFail
        ELSE IF s[i] = "{"
             THEN LET j == SkipWs(s, i + 1)
                  IN  IF j <= Len(s) /\ s[j] = "}"
                      THEN ParseOk(Obj(EmptyMembers), j + 1)
                      ELSE ParseMembers(s, j, EmptyMembers)
        ELSE IF s[i] = QUOTE THEN ParseStringBody(s, i + 1, <<>>)
        ELSE IF IsDigit(s[i]) THEN ParseNumber(s, i)
        ELSE ParseFail

\* JSON.parse(s): [ok |-> FALSE] stands for the SyntaxError it throws
JSONParse(s) ==
    LET r == ParseValue(s, 1)
    IN  IF r.ok /\ SkipWs(s, r.i) > Len(s)
        THEN [ok |-> TRUE, v |-> r.v]
        ELSE [ok |-> FALSE, v |-> Num(0)]

RECURSIVE NumToText(_)
NumToText(n) ==
    IF n < 10 THEN <<DigitChars[n + 1]>>
    ELSE NumToText(n \div 10) \o <<DigitChars[(n % 10) + 1]>>

RECURSIVE QuoteBody(_)
QuoteBody(s) ==
    IF s = <<>> THEN <<>>
    ELSE (CASE Head(s) = QUOTE -> <<BSLASH, QUOTE>>
            [] Head(s) = BSLASH -> <<BSLASH, BSLASH>>
            [] Head(s) = LF -> <<BSLASH, "n">>
            [] OTHER -> <<Head(s)>>)
         \o QuoteBody(Tail(s))

\* JSON.stringify of a string: quoted, with ", \ and the characters below
\* 0x20 escaped; 0x7F-0x9F and backticks are written as they are
QuoteText(s) == <<QUOTE>> \o QuoteBody(s) \o <<QUOTE>>

RECURSIVE Stringify(_)
RECURSIVE StringifyMembers(_, _)

StringifyMembers(m, keys) ==
    IF keys = {} THEN <<>>
    ELSE LET k == CHOOSE x \in keys : TRUE
             rest == keys \ {k}
         IN  QuoteText(k) \o <<":">> \o Stringify(m[k])
             \o (IF rest = {} THEN <<>> ELSE <<",">> \o StringifyMembers(m, rest))

\* JSON.stringify(v)
Stringify(v) ==
    CASE v.t = "num" -> NumToText(v.n)
      [] v.t = "str" -> QuoteText(v.s)
      [] v.t = "obj" -> <<"{">> \o StringifyMembers(v.m, DOMAIN v.m) \o <<"}">>

-----------------------------------------------------------------------------
(* The service methods that turn a model reply into a value *)

\* what a service method gives its caller
Parsed(v) == [kind |-> "Parsed", value |-> v, rawText |-> None, note |-> ""]
Fallback(raw, note) ==
    [kind |-> "Fallback", value |-> Num(0), rawText |-> raw, note |-> note]
Threw(note) == [kind |-> "Threw", value |-> Num(0), rawText |-> None, note |-> note]
Pending == [kind |-> "Pending", value |-> Num(0), rawText |-> None, note |-> ""]

Ran(o, c, a) == [outcome |-> o, candidate |-> c, attempts |-> a]

\* the fallback carrying the trimmed text in place of the response
MarketingFallbackTrimmed(response) ==
    Fallback(IF response.defined THEN Some(Trim(response.text)) ELSE response,
             "AI-Generated Campaign")

\* the fallback object of the marketing service: {subject, html, text, cta},
\* its text (and the body of its html) the response as it was received
MarketingFallback(response) == Fallback(response, "AI-Generated Campaign")

\* "Clean up common JSON issues": control characters removed, then line
\* feeds escaped (carriage returns and tabs likewise; the model has neither)
MarketingCleanup(jsonStr) == EscapeNewlines(RemoveControlChars(jsonStr))

\* parseJSONResponse without its try/catch: a TypeError or SyntaxError escapes
MarketingParseUncaught(response) ==
    IF ~response.defined
    THEN Ran(Threw("TypeError"), None, <<>>)
    ELSE LET cleanResponse == StripFences(Trim(response.text))
             jsonMatch == JsonMatch(cleanResponse)
         IN  IF jsonMatch.defined
             THEN LET jsonStr == MarketingCleanup(jsonMatch.text)
                      r == JSONParse(jsonStr)
                  IN  Ran(IF r.ok THEN Parsed(r.v) ELSE Threw("SyntaxError"),
                          jsonMatch, <<jsonStr>>)
             ELSE Ran(MarketingFallback(response), None, <<>>)

\* MarketingAIService.parseJSONResponse(response)
MarketingParseJSONResponse(response) ==
    IF ~response.defined
    THEN \* response.trim() throws a TypeError, caught
         Ran(MarketingFallback(response), None, <<>>)
    ELSE LET cleanResponse == StripFences(Trim(response.text))
             jsonMatch == JsonMatch(cleanResponse)
         IN  IF jsonMatch.defined
             THEN LET jsonStr == MarketingCleanup(jsonMatch.text)
                      r == JSONParse(jsonStr)
                  IN  Ran(IF r.ok THEN Parsed(r.v) ELSE MarketingFallback(response),
                          jsonMatch, <<jsonStr>>)
             ELSE Ran(MarketingFallback(response), None, <<>>)

\* the fallback objects of the analytics service: {error, rawResponse}
AnalyticsNoMatch(response) == Fallback(response, "Could not parse AI response")
AnalyticsInvalid(response) == Fallback(response, "Invalid JSON response")

\* AnalyticsAIService.parseJSONResponse(response)
AnalyticsParseJSONResponse(response) ==
    IF ~response.defined
    THEN Ran(AnalyticsInvalid(response), None, <<>>)
    ELSE LET cleanResponse == StripFences(Trim(response.text))
             jsonMatch == JsonMatch(cleanResponse)
         IN  IF jsonMatch.defined
             THEN LET r == JSONParse(jsonMatch.text)
                  IN  Ran(IF r.ok THEN Parsed(r.v) ELSE AnalyticsInvalid(response),
                          jsonMatch, <<jsonMatch.text>>)
             ELSE Ran(AnalyticsNoMatch(response), None, <<>>)

\* AIService.generateWebsiteContent, from the reply on: the content or a
\* thrown "Failed to generate website content"
GenerateWebsiteContent(response) ==
    LET content == IF response.defined THEN response.text ELSE <<>>
        text == Trim(StripFenceLines(content))
        first == JSONParse(text)
        jsonMatch == JsonMatch(text)
        second == JSONParse(jsonMatch.text)
    IN  IF first.ok THEN Ran(Parsed(first.v), None, <<text>>)
        ELSE IF jsonMatch.defined
             THEN Ran(IF second.ok THEN Parsed(second.v)
                      ELSE Threw("Failed to generate website content"),
                      jsonMatch, <<text, jsonMatch.text>>)
             ELSE Ran(Threw("Failed to generate website content"), None, <<text>>)

\* ChatbotService.generateFAQ, from the reply on (analyzeChatInteractions and
\* generateTrainingData parse the same way): JSON.parse(text) or a thrown error
GenerateFAQ(response) ==
    LET r == JSONParse(response.text)
    IN  Ran(IF r.ok THEN Parsed(r.v) ELSE Threw("Failed to generate FAQ"),
            None, <<response.text>>)

\* ImageAIService.analyzeConcepts, from the reply on: content?.trim(), then
\* JSON.parse or the built-in analysis marked fallback: true
AnalyzeConcepts(response) ==
    IF ~response.defined
    THEN \* JSON.parse(undefined) throws a SyntaxError, caught
         Ran(Fallback(None, "fallback"), None, <<>>)
    ELSE LET text == Trim(response.text)
             r == JSONParse(text)
         IN  Ran(IF r.ok THEN Parsed(r.v) ELSE Fallback(None, "fallback"),
                 None, <<text>>)

-----------------------------------------------------------------------------
(* The replies the model hands to the service methods *)

\* the characters of the free-form replies
FreeChars == {"{", "}", QUOTE, ":", "a", "1", " ", LF, DEL, TICK}

RECURSIVE TextsUpTo(_, _)
TextsUpTo(chars, n) ==
    IF n = 0 THEN {<<>>}
    ELSE LET shorter == TextsUpTo(chars, n - 1)
         IN  shorter \cup {Append(s, c) : s \in shorter, c \in chars}

FreeTexts == TextsUpTo(FreeChars, MaxLen)

Obj1(k, v) == Obj(PutMember(EmptyMembers, k, v))
Obj2(k1, v1, k2, v2) == Obj(PutMember(PutMember(EmptyMembers, k1, v1), k2, v2))

\* the values of the JSON objects of the model
LeafValues ==
    { Num(1), Num(10),
      Str(<<>>), Str(<<"a">>), Str(<<"}">>), Str(<<QUOTE>>), Str(<<BSLASH>>),
      Str(<<LF>>), Str(<<DEL>>), Str(<<TICK>>), Str(<<TICK, TICK, TICK>>),
      Str(<<"a", TICK, TICK, TICK, " ", "a">>) }

JsonObjects ==
    {Obj(EmptyMembers)}
    \cup {Obj1(<<"a">>, l) : l \in LeafValues}
    \cup {Obj1(<<"a">>, Obj1(<<"a">>, Num(1))),
          Obj2(<<"a">>, Num(1), <<"s">>, Str(<<"a">>))}

\* candidate texts that are not the serialisation of an object
BrokenTexts ==
    { <<"{", QUOTE, "a", QUOTE, ":", QUOTE, LF, QUOTE, "}">>,   \* raw line feed in a string
      <<"{", LF, QUOTE, "a", QUOTE, ":", "1", LF, "}">>,        \* pretty-printed
      <<"{", QUOTE, "a", QUOTE, ":", DEL, "1", "}">>,           \* stray U+007F
      <<"{", QUOTE, "a", QUOTE, ":", "1", ",", "}">>,           \* trailing comma
      <<"{", "a", "}">>,
      <<"{", QUOTE, "a", QUOTE, ":", "1", "}", " ", "a", " ",
        "{", QUOTE, "a", QUOTE, ":", "1", "}">> }               \* two objects

\* prose around the object: no brace and no code fence
Prefixes == {<<>>, <<"a", " ">>, <<" ">>, <<LF>>}
Suffixes == {<<>>, <<" ", "a">>, <<LF>>}

\* fenced(s): s in a markdown JSON code fence
Fenced(s) == FenceJson \o <<LF>> \o s \o <<LF>> \o Fence
FencedPlain(s) == Fence \o <<LF>> \o s \o <<LF>> \o Fence

\* two objects with prose between them
Gaps == {<<" ">>, <<" ", "a", " ">>, <<",">>}

TwoObjects(v1, gap, v2) == Stringify(v1) \o gap \o Stringify(v2)

PairedObjects ==
    {Obj(EmptyMembers), Obj1(<<"a">>, Num(1)), Obj1(<<"s">>, Str(<<"a">>))}

TwoObjectTexts ==
    {TwoObjects(v1, g, v2) : v1, v2 \in PairedObjects, g \in Gaps}

Bodies == {Stringify(v) : v \in JsonObjects} \cup BrokenTexts

Wrappings(s) == {s, Fenced(s), FencedPlain(s)}

StructuredTexts ==
    {p \o w \o x : p \in Prefixes, x \in Suffixes,
                   w \in UNION {Wrappings(b) : b \in Bodies}}

Replies ==
    {None} \cup {Some(s) : s \in FreeTexts \cup StructuredTexts \cup TwoObjectTexts}

-----------------------------------------------------------------------------
(* Exact rationals, for the scores *)

RECURSIVE Gcd(_, _)
Gcd(a, b) == IF b = 0 THEN a ELSE Gcd(b, a % b)

Abs(x) == IF x < 0 THEN -x ELSE x

\* the fraction n/d (d > 0) in lowest terms
Rat(n, d) ==
    LET g == Gcd(Abs(n), d)
    IN  [n |-> n \div g, d |-> d \div g]

RInt(k) == [n |-> k, d |-> 1]
RAdd(a, b) == Rat(a.n * b.d + b.n * a.d, a.d * b.d)
RLeq(a, b) == a.n * b.d <= b.n * a.d
RMax(a, b) == IF RLeq(a, b) THEN b ELSE a
RMin(a, b) == IF RLeq(a, b) THEN a ELSE b

-----------------------------------------------------------------------------
(* The Lead document: models/Lead.js *)

NoDate == -1       \* a Date field that is not set

\* the profile fields the score reads; TRUE stands for a non-empty string
ProfileFields == {"firstName", "lastName", "phone", "company", "jobTitle"}

\* the activity types the model records (four kinds of the schema's
\* enumeration and one the lead routes record outside it)
ActivityTypes ==
    {"email_sent", "email_opened", "link_clicked", "note_added", "status_change"}

\* the instants the clock takes, in days
Instants == {0, 3} \cup {140 + k : k \in 0..MaxLate}

\* new Lead(leadData): the schema defaults under the fields the body gives
NewLead(profile, totalEmails, emailsOpened, linksClicked, lastEmailOpened) ==
    [ firstName |-> "firstName" \in profile,
      lastName |-> "lastName" \in profile,
      phone |-> "phone" \in profile,
      company |-> "company" \in profile,
      jobTitle |-> "jobTitle" \in profile,
      engagement |->
          [ totalEmails |-> totalEmails,
            emailsOpened |-> emailsOpened,
            linksClicked |-> linksClicked,
            lastEmailOpened |-> lastEmailOpened,
            lastLinkClicked |-> NoDate,
            engagementScore |-> RInt(0) ],
      status |-> "new",
      lifecycle |->
          [stage |-> "subscriber", lastContact |-> NoDate, lastActivity |-> NoDate],
      activities |-> <<>> ]

NoLead == NewLead({}, 0, 0, 0, NoDate)

\* the ratio taken the wrong way round: sent over opened
EmailEngagementInverted(doc) ==
    IF doc.engagement.totalEmails > 0 /\ doc.engagement.emailsOpened > 0
    THEN Rat(doc.engagement.totalEmails * 40, doc.engagement.emailsOpened)
    ELSE RInt(0)

\* Email engagement (40% of score)
EmailEngagement(doc) ==
    IF doc.engagement.totalEmails > 0
    THEN Rat(doc.engagement.emailsOpened * 40, doc.engagement.totalEmails)
    ELSE RInt(0)

\* clicks taken per email sent instead of per email opened
ClickEngagementPerSent(doc) ==
    IF doc.engagement.totalEmails > 0
    THEN Rat(doc.engagement.linksClicked * 30, doc.engagement.totalEmails)
    ELSE RInt(0)

\* Click engagement (30% of score)
ClickEngagement(doc) ==
    IF doc.engagement.emailsOpened > 0
    THEN Rat(doc.engagement.linksClicked * 30, doc.engagement.emailsOpened)
    ELSE RInt(0)

\* Recency (20% of score): Math.max(0, 20 - daysSinceLastOpen / 7)
RecencyScore(doc, today) ==
    IF doc.engagement.lastEmailOpened # NoDate
    THEN LET daysSinceLastOpen == today - doc.engagement.lastEmailOpened
         IN  RMax(RInt(0), Rat(140 - daysSinceLastOpen, 7))
    ELSE RInt(0)

\* Profile completeness (10% of score)
Completeness(doc) ==
    (IF doc.firstName THEN 2 ELSE 0)
    + (IF doc.lastName THEN 2 ELSE 0)
    + (IF doc.phone THEN 2 ELSE 0)
    + (IF doc.company THEN 2 ELSE 0)
    + (IF doc.jobTitle THEN 2 ELSE 0)

\* the score stored as computed, without the clamp
ClampMissing(score) == score

\* Math.min(100, Math.max(0, score))
Clamp(score) == RMin(RInt(100), RMax(RInt(0), score))

\* leadSchema.methods.calculateEngagementScore: the document with its
\* engagementScore set
CalculateEngagementScore(doc, today) ==
    LET score ==
            RAdd(RAdd(RAdd(EmailEngagement(doc), ClickEngagement(doc)),
                      RecencyScore(doc, today)),
                 RInt(Completeness(doc)))
    IN  [doc EXCEPT !.engagement.engagementScore = Clamp(score)]

\* unshift in place of push: the new activity goes to the front
PushActivityFront(activities, type, today) ==
    <<[type |-> type, timestamp |-> today]>> \o activities

\* this.activities.push({type, description, metadata, timestamp: new Date()})
PushActivity(activities, type, today) ==
    Append(activities, [type |-> type, timestamp |-> today])

\* a click counted as an open as well
UpdateEngagementClickOpens(e, type, today) ==
    IF type = "email_sent"
    THEN [e EXCEPT !.totalEmails = @ + 1]
    ELSE IF type = "email_opened"
    THEN [e EXCEPT !.emailsOpened = @ + 1, !.lastEmailOpened = today]
    ELSE IF type = "link_clicked"
    THEN [e EXCEPT !.linksClicked = @ + 1, !.emailsOpened = @ + 1,
                   !.lastLinkClicked = today]
    ELSE e

\* the engagement metrics after an activity of the type
UpdateEngagement(e, type, today) ==
    IF type = "email_sent"
    THEN [e EXCEPT !.totalEmails = @ + 1]
    ELSE IF type = "email_opened"
    THEN [e EXCEPT !.emailsOpened = @ + 1, !.lastEmailOpened = today]
    ELSE IF type = "link_clicked"
    THEN [e EXCEPT !.linksClicked = @ + 1, !.lastLinkClicked = today]
    ELSE e

\* the score computed before the counters are updated
AddActivityScoreFirst(doc, type, today) ==
    [CalculateEngagementScore(doc, today)
        EXCEPT !.activities = PushActivity(@, type, today),
               !.lifecycle.lastActivity = today,
               !.engagement = UpdateEngagement(@, type, today)]

\* leadSchema.methods.addActivity(type, description, metadata)
AddActivity(doc, type, today) ==
    CalculateEngagementScore(
        [doc EXCEPT !.activities = PushActivity(@, type, today),
                    !.lifecycle.lastActivity = today,
                    !.engagement = UpdateEngagement(@, type, today)],
        today)

-----------------------------------------------------------------------------
(* KPI tracking: the stored KPI, and PUT /api/analytics/kpi/:id/update *)

MaxHistory == 4    \* KPI value updates per run

KpiClients == {"k1", "k2"}

\* the values the clients report
KpiValues == {9, 10, 12}

\* currentValue of a KPI that was never updated
NoValue == -1

\* new KPITracking({userId, name, category, description, target, unit})
NewKpi == [currentValue |-> NoValue, history |-> <<>>, trend |-> "stable"]

\* array.slice(-k): the last k elements, all of them when there are fewer
Slice(array, k) ==
    SubSeq(array, IF Len(array) > k THEN Len(array) - k + 1 ELSE 1, Len(array))

\* the newest value compared with the one before it
TrendOfLastTwo(history) ==
    LET recent == Slice(history, 2)
    IN  IF recent[Len(recent)] > recent[1] THEN "increasing"
        ELSE IF recent[Len(recent)] < recent[1] THEN "decreasing"
        ELSE "stable"

\* the trend of the last three values of the history
TrendOf(history) ==
    LET recent == Slice(history, 3)
    IN  IF recent[Len(recent)] > recent[1] THEN "increasing"
        ELSE IF recent[Len(recent)] < recent[1] THEN "decreasing"
        ELSE "stable"

\* the handler's changes to the KPI it found
UpdateKpi(doc, value) ==
    LET history == Append(doc.history, value)
    IN  [ currentValue |-> value,
          history |-> history,
          trend |-> IF Len(history) >= 2 THEN TrendOf(history) ELSE doc.trend ]

\* kpi.save(): the paths changed since the document was loaded are set, the
\* pushed history entries are appended to the stored array
SaveKpi(stored, base, doc) ==
    [ currentValue |-> IF doc.currentValue # base.currentValue
                       THEN doc.currentValue ELSE stored.currentValue,
      history |-> stored.history
                  \o SubSeq(doc.history, Len(base.history) + 1, Len(doc.history)),
      trend |-> IF doc.trend # base.trend THEN doc.trend ELSE stored.trend ]

\* the KPI as created, no update in flight
NoKpi ==
    [ stored |-> NewKpi,
      mem |-> [c \in KpiClients |-> [pc |-> "idle", doc |-> NewKpi, base |-> NewKpi]],
      started |-> 0,
      overlap |-> FALSE ]

-----------------------------------------------------------------------------
(* Website images: GeminiImageService.generateWebsiteImages *)

MaxImages == 1     \* images in one reply of the image model

\* imagePrompts, by type, in the order of the array
ImageTypes == <<"hero", "about", "services", "contact">>

\* generateImage threw
ImageThrew == [threw |-> TRUE, success |-> FALSE, images |-> 0]

\* generateImage returned {success: true, images: [...n images]}
ImageReturned(n) == [threw |-> FALSE, success |-> TRUE, images |-> n]

ImageResults == {ImageThrew} \cup {ImageReturned(n) : n \in 0..MaxImages}

\* a run: images holds the keys of generatedImages, each mapped to the first
\* image of its result
NoRun ==
    [ pc |-> "idle", data |-> FALSE, i |-> 1,
      attempted |-> <<>>, results |-> <<>>, images |-> {} ]

\* the loop body without its own try/catch: a throw ends the run
LoopStepUncaught(run, result) ==
    [run EXCEPT !.pc = IF result.threw THEN "threw" ELSE @,
                !.i = @ + 1,
                !.attempted = Append(@, ImageTypes[run.i]),
                !.results = Append(@, result),
                !.images = IF ~result.threw /\ result.success /\ result.images > 0
                           THEN @ \cup {ImageTypes[run.i]} ELSE @]

\* one turn of the loop over imagePrompts
LoopStep(run, result) ==
    [run EXCEPT !.i = @ + 1,
                !.attempted = Append(@, ImageTypes[run.i]),
                !.results = Append(@, result),
                !.images = IF ~result.threw /\ result.success /\ result.images > 0
                           THEN @ \cup {ImageTypes[run.i]} ELSE @]

-----------------------------------------------------------------------------
(* Lead routes: POST /api/leads, PUT /api/leads/:id and
   POST /api/leads/:id/activities on the one Lead of a client, with the
   documents the handlers hold in memory between their awaits. *)

MaxRequests == 3   \* lead requests started per run

Connections == {"c1", "c2"}

\* leadSchema.activities.type.enum
SchemaTypes ==
    {"email_sent", "email_opened", "link_clicked", "form_submitted",
     "page_visited", "purchase", "call", "meeting", "note_added"}

\* the kinds of the Activity enumeration
SpecKinds ==
    SchemaTypes \cup {"status_change", "stage_change", "import", "manual_add"}

\* leadSchema.status.enum and leadSchema.lifecycle.stage.enum
LeadStatuses ==
    {"new", "contacted", "qualified", "proposal", "negotiation",
     "closed_won", "closed_lost"}

LifecycleStages ==
    {"subscriber", "lead", "marketing_qualified", "sales_qualified",
     "opportunity", "customer", "evangelist"}

\* the types the clients record
RouteTypes == {"email_sent", "email_opened", "note_added", "status_change"}

\* a request body; "" and FALSE stand for a key the body does not hold
NoBody ==
    [ type |-> "", totalEmails |-> 0, log |-> <<>>,
      status |-> "", stage |-> "", phone |-> FALSE ]

\* an activity log in the body of a create, dated by the client
BodyLogs == {<<>>, <<[type |-> "note_added", timestamp |-> 3]>>}

CreateBodies ==
    {[NoBody EXCEPT !.totalEmails = t, !.log = l] :
        t \in {0, MaxCount}, l \in BodyLogs}

UpdateBodies ==
    {[NoBody EXCEPT !.status = s, !.stage = g, !.phone = p] :
        s \in {"", "contacted"}, g \in {"", "lead"}, p \in BOOLEAN}

ActivityBodies == {[NoBody EXCEPT !.type = t] : t \in RouteTypes}

\* new Lead({...req.body, userId})
FromBody(body) ==
    [NewLead({}, body.totalEmails, 0, 0, NoDate) EXCEPT !.activities = body.log]

\* the schema validation of save()
Valid(doc) ==
    /\ doc.status \in LeadStatuses
    /\ doc.lifecycle.stage \in LifecycleStages
    /\ RLeq(RInt(0), doc.engagement.engagementScore)
    /\ RLeq(doc.engagement.engagementScore, RInt(100))
    /\ \A i \in 1..Len(doc.activities) : doc.activities[i].type \in SchemaTypes

\* the value save() leaves at a path: the document's when it changed since
\* the document was loaded or last saved, the stored one otherwise
Pick(stored, base, doc) == IF doc # base THEN doc ELSE stored

\* a save that does not write the pushed activities
SaveLeadWithoutLog(stored, base, doc) ==
    [ firstName |-> Pick(stored.firstName, base.firstName, doc.firstName),
      lastName |-> Pick(stored.lastName, base.lastName, doc.lastName),
      phone |-> Pick(stored.phone, base.phone, doc.phone),
      company |-> Pick(stored.company, base.company, doc.company),
      jobTitle |-> Pick(stored.jobTitle, base.jobTitle, doc.jobTitle),
      engagement |->
          [f \in DOMAIN doc.engagement |->
              Pick(stored.engagement[f], base.engagement[f], doc.engagement[f])],
      status |-> Pick(stored.status, base.status, doc.status),
      lifecycle |->
          [f \in DOMAIN doc.lifecycle |->
              Pick(stored.lifecycle[f], base.lifecycle[f], doc.lifecycle[f])],
      activities |-> stored.activities ]

\* lead.save() of a stored Lead: the changed paths are set, the pushed
\* activities are appended to the stored log
SaveLead(stored, base, doc) ==
    [ firstName |-> Pick(stored.firstName, base.firstName, doc.firstName),
      lastName |-> Pick(stored.lastName, base.lastName, doc.lastName),
      phone |-> Pick(stored.phone, base.phone, doc.phone),
      company |-> Pick(stored.company, base.company, doc.company),
      jobTitle |-> Pick(stored.jobTitle, base.jobTitle, doc.jobTitle),
      engagement |->
          [f \in DOMAIN doc.engagement |->
              Pick(stored.engagement[f], base.engagement[f], doc.engagement[f])],
      status |-> Pick(stored.status, base.status, doc.status),
      lifecycle |->
          [f \in DOMAIN doc.lifecycle |->
              Pick(stored.lifecycle[f], base.lifecycle[f], doc.lifecycle[f])],
      activities |->
          stored.activities
          \o SubSeq(doc.activities, Len(base.activities) + 1, Len(doc.activities)) ]

\* allowedUpdates.forEach(...), lifecycle.stage and lifecycle.lastContact
ApplyUpdates(doc, body, today) ==
    [doc EXCEPT !.phone = IF body.phone THEN TRUE ELSE @,
                !.status = IF body.status # "" THEN body.status ELSE @,
                !.lifecycle.stage = IF body.stage # "" THEN body.stage ELSE @,
                !.lifecycle.lastContact = today]

\* the activities the update records after its first save
ChangeKinds(old, doc) ==
    (IF old.status # doc.status THEN <<"status_change">> ELSE <<>>)
    \o (IF old.lifecycle.stage # doc.lifecycle.stage
        THEN <<"stage_change">> ELSE <<>>)

RECURSIVE AddActivities(_, _, _)
AddActivities(doc, kinds, today) ==
    IF kinds = <<>> THEN doc
    ELSE AddActivities(AddActivity(doc, Head(kinds), today), Tail(kinds), today)

\* the counters and the length of the log that the acknowledged activities
\* add up to
Tally(doc) ==
    [ totalEmails |-> doc.engagement.totalEmails,
      emailsOpened |-> doc.engagement.emailsOpened,
      linksClicked |-> doc.engagement.linksClicked,
      log |-> Len(doc.activities) ]

Acknowledge(tally, kinds) ==
    LET count(k) == Cardinality({i \in 1..Len(kinds) : kinds[i] = k})
    IN  [ totalEmails |-> tally.totalEmails + count("email_sent"),
          emailsOpened |-> tally.emailsOpened + count("email_opened"),
          linksClicked |-> tally.linksClicked + count("link_clicked"),
          log |-> tally.log + Len(kinds) ]

IdleRequest ==
    [ op |-> "none", pc |-> "idle", body |-> NoBody,
      loaded |-> NoLead, base |-> NoLead, doc |-> NoLead,
      status |-> 0, recorded |-> <<>> ]

\* a handler answered with the status
Answer(request, status) ==
    [request EXCEPT !.pc = "done", !.status = status,
                    !.loaded = NoLead, !.base = NoLead]

ApiIdle ==
    /\ db = [exists |-> FALSE, doc |-> NoLead]
    /\ reqs = [c \in Connections |-> IdleRequest]
    /\ api = [started |-> 0, overlap |-> FALSE, expected |-> Tally(NoLead)]

-----------------------------------------------------------------------------
(* The chatbot: ChatbotService keeps one conversation history per sessionId
   in a Map; the chatbot routes keep the interactions of a session in
   chatSessions.  A message is the role and the user whose request put it
   there; a history or a session that is not in its Map is the empty
   sequence, a stored one is never empty. *)

MaxTurns == 11     \* messages of the one user on the one session
MaxShared == 3     \* messages of the two users on the two sessions

ChatUsers == {"u1", "u2"}
SessionIds == {"s1", "s2"}

\* if (history.length > 20)
HistoryLimit == 20

SystemMessage(u) == [role |-> "system", by |-> u]
UserMessage(u) == [role |-> "user", by |-> u]
AssistantMessage(u) == [role |-> "assistant", by |-> u]

\* history.splice(1, 2)
Splice12(history) ==
    <<history[1]>> \o SubSeq(history, 4, Len(history))

\* processMessage up to the model call: the history is created with the
\* system prompt when the Map has none, the user message is pushed
PushUser(history, u) ==
    Append(IF history = <<>> THEN <<SystemMessage(u)>> ELSE history,
           UserMessage(u))

\* processMessage after the model answered: the reply is pushed, the oldest
\* pair is removed when the history has grown past the limit
PushAssistant(history, u) ==
    LET pushed == Append(history, AssistantMessage(u))
    IN  IF Len(pushed) > HistoryLimit THEN Splice12(pushed) ELSE pushed

\* the messages of the history that another user's request put there
OfOthers(history, u) ==
    {i \in 1..Len(history) :
        history[i].role # "system" /\ history[i].by # u}

\* the interactions of the session that another user's request put there
LoggedByOthers(session, u) ==
    {i \in 1..Len(session) : session[i] # u}

IdleCall == [pc |-> "idle", sessionId |-> "none", live |-> FALSE]

NoChat ==
    [users |-> {}, ids |-> {}, left |-> 0,
     conversationHistory |-> [s \in SessionIds |-> <<>>],
     chatSessions |-> [s \in SessionIds |-> <<>>],
     call |-> [u \in ChatUsers |-> IdleCall],
     fed |-> FALSE, removed |-> FALSE]

-----------------------------------------------------------------------------
(* The protected routes: a request passes the auth middleware (or adminAuth,
   which wraps it) before its handler runs.  The handlers modelled are the
   website routes that write the one website of the model. *)

MaxVisits == 2     \* requests started per run

\* the users of the User collection, and the subjects tokens were signed for
WebUsers == {"u1", "u2"}
TokenSubjects == {"u1", "u2", "u3"}

\* user.role
Role(u) == IF u = "u2" THEN "admin" ELSE "user"

\* the Authorization header of a request: absent, "Bearer " alone, a token
\* that jwt.verify rejects, or a token signed for a subject
Tokens ==
    {[kind |-> k, userId |-> "none"] : k \in {"absent", "blank", "forged"}}
        \cup {[kind |-> "signed", userId |-> u] : u \in TokenSubjects}

\* req.header('Authorization')?.replace('Bearer ', ''), then if (!token)
HasToken(token) == token.kind \notin {"absent", "blank"}

\* jwt.verify(token, process.env.JWT_SECRET) returns instead of throwing
Verifies(token) == token.kind = "signed"

\* the paths of the Website schema that the routes write or query
WebsitePaths == {"userId", "status", "businessInfo", "content"}

\* new Website({userId: req.user.id, businessInfo, content: aiContent, ...})
NewWebsite(u) ==
    [userId |-> u, status |-> "draft", businessInfo |-> "b1", content |-> "c1"]

NoWebsite ==
    [userId |-> "none", status |-> "none", businessInfo |-> "none",
     content |-> "none"]

\* req.body: a key the body has not is undefined
NoUpdates == [p \in WebsitePaths |-> "undefined"]

\* req.body of PUT /api/websites/:id
WebsiteBodies ==
    {[NoUpdates EXCEPT !.businessInfo = "b2"],
     [NoUpdates EXCEPT !.userId = "u2"]}

Routes == {"update", "publish", "unpublish", "regenerate", "admin"}

\* Object.assign(website, updates): a path of the schema takes the value the
\* body carries, a key the schema has not is dropped by the document
ObjectAssign(website, updates) ==
    [p \in WebsitePaths |->
        IF updates[p] # "undefined" THEN updates[p] ELSE website[p]]

\* website.save(): the paths that changed since the document was loaded are
\* written to the stored document
SaveWebsite(stored, base, website) ==
    [p \in WebsitePaths |->
        IF website[p] # base[p] THEN website[p] ELSE stored[p]]

\* auth after the token verified: User.findById resolved or rejected; the
\* request goes on to next() only with a user
AuthUserNoCheck(request, resolved) ==
    IF resolved
    THEN [request EXCEPT !.pc = "next", !.passed = TRUE,
                         !.user = request.token.userId]
    ELSE [request EXCEPT !.pc = "done", !.status = 401]

AuthUser(request, resolved) ==
    IF resolved /\ request.token.userId \in WebUsers
    THEN [request EXCEPT !.pc = "next", !.passed = TRUE,
                         !.user = request.token.userId]
    ELSE [request EXCEPT !.pc = "done", !.status = 401]

IdleVisit ==
    [pc |-> "idle", token |-> [kind |-> "absent", userId |-> "none"],
     route |-> "none", body |-> NoUpdates, user |-> "none", status |-> 0,
     passed |-> FALSE, ran |-> FALSE, loaded |-> NoWebsite]

NoWeb ==
    [site |-> NoWebsite, creator |-> "none", started |-> 0,
     reqs |-> [c \in Connections |-> IdleVisit]]

-----------------------------------------------------------------------------
(* The image generation of geminiImageService.generateImage, reached from
   the two routes that forward a numberOfImages of the request body. *)

MaxAsked == 5      \* the largest numberOfImages a request body carries

ImageRoutes == {"generate-with-gemini", "generate-single-image"}

\* Math.min(numberOfImages, 4)
ImageCap == 4

Min(a, b) == IF a <= b THEN a ELSE b

\* the numberOfImages the route hands to generateImage
Forwarded(route, numberOfImages) ==
    IF route = "generate-with-gemini"
    THEN Min(numberOfImages, ImageCap)
    ELSE numberOfImages

\* what fetch(imageUrl) can give: a body with bytes, an empty body, a
\* response that is not ok, a rejection
FetchOutcomes == {"body", "empty", "notok", "rejected"}

\* generateWithFallbackService: the base64 text of the fetched body or, the
\* fetch failing, of the placeholder; it throws when the placeholder does
GenerateWithFallbackService(fetched, placeholder) ==
    CASE fetched = "body" -> "bytes"
      [] fetched = "empty" -> "none"
      [] OTHER -> IF placeholder THEN "placeholder" ELSE "threw"

\* if (imageData?.image?.imageBytes): the empty text is falsy
HasBytes(imageBytes) == imageBytes # "none"

NoGen ==
    [pc |-> "idle", route |-> "none", asked |-> 0, numberOfImages |-> 0,
     caught |-> FALSE, generatedImages |-> <<>>, j |-> 0, images |-> 0,
     status |-> 0, placeholderFailed |-> FALSE, writeFailed |-> FALSE]

-----------------------------------------------------------------------------
(* The image record of POST /api/images/generate-from-prompt.  The service
   the handler calls, imageAIService, defines neither generateImageFromPrompt
   nor generateMultipleImages, so the call throws. *)

MaxPrompts == 3    \* generate-from-prompt requests started per run

\* the imageId of the body: none, a record of the user, a record of another
ImageIds == {"none", "own", "other"}

\* Image.findOneAndUpdate({_id, userId: req.user.id}, {status}): the record
\* of the user takes the status unless the call rejects
FindOneAndUpdate(status, imageId, new, resolved) ==
    IF imageId = "own" /\ resolved THEN new ELSE status

IdlePrompt == [pc |-> "idle", imageId |-> "none", status |-> 0]

NoRec ==
    [status |-> "prompt_generated", started |-> 0,
     reqs |-> [c \in Connections |-> IdlePrompt]]

SideIdle == chat = NoChat /\ web = NoWeb /\ gen = NoGen /\ rec = NoRec

-----------------------------------------------------------------------------
(* Specification of the reply recovery: a reply arrives, one service method
   handles it. *)

Finish(method, ran) ==
    /\ pc = "start"
    /\ pc' = "done"
    /\ svc' = method
    /\ outcome' = ran.outcome
    /\ candidate' = ran.candidate
    /\ attempts' = ran.attempts
    /\ UNCHANGED <<reply, lead, now, calls, kpi, img, apiVars, sideVars>>

MarketingParse == Finish("marketing", MarketingParseJSONResponse(reply))

AnalyticsParse == Finish("analytics", AnalyticsParseJSONResponse(reply))

WebsiteContent == Finish("website", GenerateWebsiteContent(reply))

\* response.text() is always a string
FAQ == reply.defined /\ Finish("faq", GenerateFAQ(reply))

Concepts == Finish("concepts", AnalyzeConcepts(reply))

Init ==
    /\ reply \in Replies
    /\ pc = "start"
    /\ svc = "none"
    /\ outcome = Pending
    /\ candidate = None
    /\ attempts = <<>>
    /\ lead = NoLead
    /\ now = 0
    /\ calls = <<>>
    /\ kpi = NoKpi /\ img = NoRun /\ ApiIdle /\ SideIdle

Next ==
    \/ MarketingParse
    \/ AnalyticsParse
    \/ WebsiteContent
    \/ FAQ
    \/ Concepts

Spec == Init /\ [][Next]_vars

-----------------------------------------------------------------------------
(* Specification of the engagement engine: a Lead is created from a client's
   body, then activities are recorded on it while the clock advances. *)

\* the profiles of the leads the engine is run on
Profiles == {{}, {"firstName", "lastName", "company"}, ProfileFields}

LeadInit ==
    /\ reply = None
    /\ pc = "start"
    /\ svc = "none"
    /\ outcome = Pending
    /\ candidate = None
    /\ attempts = <<>>
    /\ now = 0
    /\ calls = <<>>
    /\ \E profile \in Profiles, t, o, c \in 0..MaxCount :
           lead = NewLead(profile, t, o, c, NoDate)
    /\ kpi = NoKpi /\ img = NoRun /\ ApiIdle /\ SideIdle

\* lead.addActivity(type, ...) at the present instant
RecordActivity(type) ==
    /\ Len(calls) < MaxLog
    /\ lead' = AddActivity(lead, type, now)
    /\ calls' = Append(calls, type)
    /\ UNCHANGED <<now, recoverVars, kpi, img, apiVars, sideVars>>

\* the clock advances
Tick ==
    /\ \E t \in Instants : t > now /\ now' = t
    /\ UNCHANGED <<lead, calls, recoverVars, kpi, img, apiVars, sideVars>>

LeadNext ==
    \/ \E type \in ActivityTypes : RecordActivity(type)
    \/ Tick

LeadSpec == LeadInit /\ [][LeadNext]_vars

-----------------------------------------------------------------------------
(* Specification of the score function alone: calculateEngagementScore is
   applied once to a Lead whose fields are drawn freely. *)

\* the counters of the worked example: 10 sent, 5 opened, 2 clicked
ScenarioCounters == <<10, 5, 2>>

Counters ==
    {<<t, o, c>> : t, o, c \in 0..MaxCount} \cup {ScenarioCounters}

ScoreInit ==
    /\ reply = None
    /\ pc = "start"
    /\ svc = "none"
    /\ outcome = Pending
    /\ candidate = None
    /\ attempts = <<>>
    /\ calls = <<>>
    /\ now \in Instants
    /\ \E profile \in SUBSET ProfileFields, k \in Counters,
          opened \in {NoDate} \cup {t \in Instants : t <= now} :
           lead = NewLead(profile, k[1], k[2], k[3], opened)
    /\ kpi = NoKpi /\ img = NoRun /\ ApiIdle /\ SideIdle

\* lead.calculateEngagementScore()
CalculateScore ==
    /\ pc = "start"
    /\ pc' = "done"
    /\ svc' = "score"
    /\ lead' = CalculateEngagementScore(lead, now)
    /\ UNCHANGED <<reply, outcome, candidate, attempts, now, calls,
                   kpi, img, apiVars, sideVars>>

ScoreNext == CalculateScore

ScoreSpec == ScoreInit /\ [][ScoreNext]_vars

-----------------------------------------------------------------------------
(* The other specifications leave the engine idle *)

\* no service method, no Lead in memory
EngineIdle ==
    /\ reply = None
    /\ pc = "start"
    /\ svc = "none"
    /\ outcome = Pending
    /\ candidate = None
    /\ attempts = <<>>
    /\ lead = NoLead
    /\ now = 0
    /\ calls = <<>>

-----------------------------------------------------------------------------
(* Specification of the KPI update: two clients update one KPI; a handler
   runs from its findOne to its save without yielding in between. *)

KpiInit ==
    /\ EngineIdle /\ img = NoRun /\ ApiIdle /\ SideIdle
    /\ kpi = NoKpi

\* KPITracking.findOne({_id, userId})
KpiFind(c) ==
    /\ kpi.mem[c].pc \in {"idle", "done"}
    /\ kpi.started < MaxHistory
    /\ kpi' = [kpi EXCEPT
                 !.mem[c] = [pc |-> "found", doc |-> kpi.stored, base |-> kpi.stored],
                 !.started = @ + 1,
                 !.overlap = @ \/ \E o \in KpiClients \ {c} : kpi.mem[o].pc = "found"]
    /\ UNCHANGED <<recoverVars, leadVars, img, apiVars, sideVars>>

\* the rest of the handler: value and history, trend, save, response
KpiUpdate(c, value) ==
    /\ kpi.mem[c].pc = "found"
    /\ LET doc == UpdateKpi(kpi.mem[c].doc, value)
       IN  kpi' = [kpi EXCEPT
                     !.stored = SaveKpi(@, kpi.mem[c].base, doc),
                     !.mem[c] = [pc |-> "done", doc |-> doc, base |-> doc]]
    /\ UNCHANGED <<recoverVars, leadVars, img, apiVars, sideVars>>

KpiNext ==
    \/ \E c \in KpiClients : KpiFind(c)
    \/ \E c \in KpiClients, value \in KpiValues : KpiUpdate(c, value)

KpiSpec == KpiInit /\ [][KpiNext]_vars

-----------------------------------------------------------------------------
(* Specification of the website images: one call of generateWebsiteImages,
   each generateImage call throwing or returning some images. *)

ImagesInit ==
    /\ EngineIdle /\ kpi = NoKpi /\ ApiIdle /\ SideIdle
    /\ \E data \in BOOLEAN : img = [NoRun EXCEPT !.pc = "start", !.data = data]

\* const { businessName, industry, style, description } = websiteData
Destructure ==
    /\ img.pc = "start"
    /\ img' = [img EXCEPT !.pc = IF img.data THEN "loop" ELSE "threw"]
    /\ UNCHANGED <<recoverVars, leadVars, kpi, apiVars, sideVars>>

\* await this.generateImage(imagePrompt.prompt, ...) and what follows it
GenerateImage(result) ==
    /\ img.pc = "loop"
    /\ img.i <= Len(ImageTypes)
    /\ img' = LoopStep(img, result)
    /\ UNCHANGED <<recoverVars, leadVars, kpi, apiVars, sideVars>>

\* return {success: true, images: generatedImages, websiteData}
ReturnImages ==
    /\ img.pc = "loop"
    /\ img.i > Len(ImageTypes)
    /\ img' = [img EXCEPT !.pc = "returned"]
    /\ UNCHANGED <<recoverVars, leadVars, kpi, apiVars, sideVars>>

ImagesNext ==
    \/ Destructure
    \/ \E result \in ImageResults : GenerateImage(result)
    \/ ReturnImages

ImagesSpec == ImagesInit /\ [][ImagesNext]_vars

-----------------------------------------------------------------------------
(* Specification of the lead routes: two connections send requests on the
   one Lead of a client; a handler yields at each await. *)

ApiInit == EngineIdle /\ kpi = NoKpi /\ img = NoRun /\ ApiIdle /\ SideIdle

\* a request arrives on a free connection
Arrive(c) ==
    /\ reqs[c].pc \in {"idle", "done"}
    /\ api.started < MaxRequests

\* the handler holds the Lead that findOne gave it
Found(op, body) ==
    [IdleRequest EXCEPT !.op = op, !.body = body, !.pc = "found",
                        !.loaded = db.doc, !.base = db.doc, !.doc = db.doc]

\* the second save of a handler, after its addActivity calls
SaveRecorded(c, kinds, okStatus) ==
    LET doc == AddActivities(reqs[c].doc, kinds, now)
        request == [reqs[c] EXCEPT !.doc = doc, !.recorded = kinds]
    IN  IF Valid(doc)
        THEN /\ db' = [db EXCEPT !.doc = SaveLead(@, reqs[c].base, doc)]
             /\ reqs' = [reqs EXCEPT ![c] = Answer(request, okStatus)]
             /\ api' = [api EXCEPT !.expected = Acknowledge(@, kinds)]
        ELSE /\ reqs' = [reqs EXCEPT ![c] = Answer(request, 500)]
             /\ UNCHANGED <<db, api>>

\* POST /api/leads up to Lead.findOne({userId, email})
CreateFind(c, body) ==
    /\ Arrive(c)
    /\ reqs' = [reqs EXCEPT ![c] =
                  IF db.exists
                  THEN Answer([IdleRequest EXCEPT !.op = "create", !.body = body], 400)
                  ELSE [IdleRequest EXCEPT !.op = "create", !.body = body,
                                           !.pc = "found", !.doc = FromBody(body)]]
    /\ api' = [api EXCEPT !.started = @ + 1]
    /\ UNCHANGED <<db, recoverVars, leadVars, kpi, img, sideVars>>

\* new Lead(leadData), await lead.save(): a second Lead of the same email
\* breaks the unique index
CreateSave(c) ==
    /\ reqs[c].op = "create"
    /\ reqs[c].pc = "found"
    /\ IF ~db.exists /\ Valid(reqs[c].doc)
       THEN /\ db' = [exists |-> TRUE, doc |-> reqs[c].doc]
            /\ reqs' = [reqs EXCEPT ![c].pc = "saved", ![c].base = reqs[c].doc]
            /\ api' = [api EXCEPT !.expected = Tally(reqs[c].doc)]
       ELSE /\ reqs' = [reqs EXCEPT ![c] = Answer(@, 500)]
            /\ UNCHANGED <<db, api>>
    /\ UNCHANGED <<recoverVars, leadVars, kpi, img, sideVars>>

\* lead.addActivity('manual_add', ...), await lead.save(), 201
CreateFinish(c) ==
    /\ reqs[c].op = "create"
    /\ reqs[c].pc = "saved"
    /\ SaveRecorded(c, <<"manual_add">>, 201)
    /\ UNCHANGED <<recoverVars, leadVars, kpi, img, sideVars>>

\* PUT /api/leads/:id up to Lead.findOne({_id, userId})
UpdateFind(c, body) ==
    /\ Arrive(c)
    /\ reqs' = [reqs EXCEPT ![c] =
                  IF db.exists THEN Found("update", body)
                  ELSE Answer([IdleRequest EXCEPT !.op = "update", !.body = body], 404)]
    /\ api' = [api EXCEPT !.started = @ + 1]
    /\ UNCHANGED <<db, recoverVars, leadVars, kpi, img, sideVars>>

\* the allowed fields are set, await lead.save()
UpdateSave(c) ==
    /\ reqs[c].op = "update"
    /\ reqs[c].pc = "found"
    /\ LET doc == ApplyUpdates(reqs[c].doc, reqs[c].body, now)
       IN  IF Valid(doc)
           THEN /\ db' = [db EXCEPT !.doc = SaveLead(@, reqs[c].base, doc)]
                /\ reqs' = [reqs EXCEPT ![c].pc = "saved", ![c].doc = doc,
                                        ![c].base = doc]
           ELSE /\ reqs' = [reqs EXCEPT ![c] = Answer(@, 500)]
                /\ UNCHANGED db
    /\ UNCHANGED <<api, recoverVars, leadVars, kpi, img, sideVars>>

\* the status and stage activities, await lead.save(), 200
UpdateFinish(c) ==
    /\ reqs[c].op = "update"
    /\ reqs[c].pc = "saved"
    /\ SaveRecorded(c, ChangeKinds(reqs[c].loaded, reqs[c].doc), 200)
    /\ UNCHANGED <<recoverVars, leadVars, kpi, img, sideVars>>

\* POST /api/leads/:id/activities up to Lead.findOne({_id, userId})
ActivityFind(c, body) ==
    /\ Arrive(c)
    /\ reqs' = [reqs EXCEPT ![c] =
                  IF db.exists THEN Found("activity", body)
                  ELSE Answer([IdleRequest EXCEPT !.op = "activity", !.body = body], 404)]
    /\ UNCHANGED <<db, recoverVars, leadVars, kpi, img, sideVars>>
    /\ api' = [api EXCEPT
                 !.started = @ + 1,
                 !.overlap = @ \/ (db.exists /\ \E o \in Connections \ {c} :
                                       reqs[o].op = "activity" /\ reqs[o].pc = "found")]

\* lead.addActivity(type, description, metadata), await lead.save(), 200
ActivitySave(c) ==
    /\ reqs[c].op = "activity"
    /\ reqs[c].pc = "found"
    /\ SaveRecorded(c, <<reqs[c].body.type>>, 200)
    /\ UNCHANGED <<recoverVars, leadVars, kpi, img, sideVars>>

ApiNext ==
    \/ \E c \in Connections, body \in CreateBodies : CreateFind(c, body)
    \/ \E c \in Connections : CreateSave(c)
    \/ \E c \in Connections : CreateFinish(c)
    \/ \E c \in Connections, body \in UpdateBodies : UpdateFind(c, body)
    \/ \E c \in Connections : UpdateSave(c)
    \/ \E c \in Connections : UpdateFinish(c)
    \/ \E c \in Connections, body \in ActivityBodies : ActivityFind(c, body)
    \/ \E c \in Connections : ActivitySave(c)

ApiSpec == ApiInit /\ [][ApiNext]_vars

-----------------------------------------------------------------------------
(* Specification of the chatbot: either one user talks on one session for
   MaxTurns messages, or two users share two session ids for MaxShared
   messages; a message handler yields at the model call, a deletion runs
   without yielding. *)

ChatInit ==
    /\ EngineIdle /\ kpi = NoKpi /\ img = NoRun /\ ApiIdle
    /\ web = NoWeb /\ gen = NoGen /\ rec = NoRec
    /\ \/ chat = [NoChat EXCEPT !.users = {"u1"}, !.ids = {"s1"},
                                !.left = MaxTurns]
       \/ chat = [NoChat EXCEPT !.users = ChatUsers, !.ids = SessionIds,
                                !.left = MaxShared]

\* POST /api/chatbot/message of a user without a business name: 400
MessageUnprofiled(u) ==
    /\ u \in chat.users
    /\ chat.call[u].pc = "idle"
    /\ chat.left > 0
    /\ chat' = [chat EXCEPT !.left = @ - 1]
    /\ UNCHANGED <<recoverVars, leadVars, kpi, img, apiVars, web, gen, rec>>

\* POST /api/chatbot/message up to await model.generateContent(prompt)
MessageAsk(u, sessionId) ==
    /\ u \in chat.users /\ sessionId \in chat.ids
    /\ chat.call[u].pc = "idle"
    /\ chat.left > 0
    /\ LET history == PushUser(chat.conversationHistory[sessionId], u)
       IN  chat' = [chat EXCEPT
                      !.left = @ - 1,
                      !.conversationHistory[sessionId] = history,
                      !.call[u] = [pc |-> "asked", sessionId |-> sessionId,
                                   live |-> TRUE],
                      !.fed = @ \/ OfOthers(history, u) # {}]
    /\ UNCHANGED <<recoverVars, leadVars, kpi, img, apiVars, web, gen, rec>>

\* the model call settles: the rest of processMessage, then the route stores
\* the interaction and answers
MessageReply(u, answered) ==
    /\ chat.call[u].pc = "asked"
    /\ LET sessionId == chat.call[u].sessionId
           live == chat.call[u].live
       IN  chat' = [chat EXCEPT
                      !.conversationHistory[sessionId] =
                          IF answered /\ live THEN PushAssistant(@, u) ELSE @,
                      !.chatSessions[sessionId] = Append(@, u),
                      !.call[u] = IdleCall]
    /\ UNCHANGED <<recoverVars, leadVars, kpi, img, apiVars, web, gen, rec>>

\* DELETE /api/chatbot/history/:sessionId
ClearHistory(u, sessionId) ==
    /\ u \in chat.users /\ sessionId \in chat.ids
    /\ chat.call[u].pc = "idle"
    /\ chat.conversationHistory[sessionId] # <<>>
           \/ chat.chatSessions[sessionId] # <<>>
    /\ chat' = [chat EXCEPT
                  !.conversationHistory[sessionId] = <<>>,
                  !.chatSessions[sessionId] = <<>>,
                  !.call = [o \in ChatUsers |->
                               IF @[o].sessionId = sessionId
                               THEN [@[o] EXCEPT !.live = FALSE] ELSE @[o]],
                  !.removed = @ \/ OfOthers(chat.conversationHistory[sessionId], u) # {}
                                \/ LoggedByOthers(chat.chatSessions[sessionId], u) # {}]
    /\ UNCHANGED <<recoverVars, leadVars, kpi, img, apiVars, web, gen, rec>>

ChatNext ==
    \/ \E u \in ChatUsers : MessageUnprofiled(u)
    \/ \E u \in ChatUsers, sessionId \in SessionIds : MessageAsk(u, sessionId)
    \/ \E u \in ChatUsers, answered \in BOOLEAN : MessageReply(u, answered)
    \/ \E u \in ChatUsers, sessionId \in SessionIds : ClearHistory(u, sessionId)

ChatSpec == ChatInit /\ [][ChatNext]_vars

-----------------------------------------------------------------------------
(* Specification of the protected routes: the website of one user exists;
   two connections send requests with any Authorization header; the
   middleware and the handlers yield at each await. *)

WebInit ==
    /\ EngineIdle /\ kpi = NoKpi /\ img = NoRun /\ ApiIdle
    /\ chat = NoChat /\ gen = NoGen /\ rec = NoRec
    /\ \E u \in WebUsers :
           web = [NoWeb EXCEPT !.site = NewWebsite(u), !.creator = u]

\* a request reaches the middleware of its route
Visit(c, token, route, body) ==
    /\ web.reqs[c].pc \in {"idle", "done"}
    /\ web.started < MaxVisits
    /\ (route = "update") <=> (body # NoUpdates)
    /\ web' = [web EXCEPT
                 !.started = @ + 1,
                 !.reqs[c] = [IdleVisit EXCEPT !.pc = "auth", !.token = token,
                                               !.route = route, !.body = body]]
    /\ UNCHANGED <<recoverVars, leadVars, kpi, img, apiVars, chat, gen, rec>>

\* auth up to await User.findById(decoded.userId)
AuthToken(c) ==
    /\ web.reqs[c].pc = "auth"
    /\ web' = [web EXCEPT !.reqs[c] =
                 IF HasToken(@.token) /\ Verifies(@.token)
                 THEN [@ EXCEPT !.pc = "lookup"]
                 ELSE [@ EXCEPT !.pc = "done", !.status = 401]]
    /\ UNCHANGED <<recoverVars, leadVars, kpi, img, apiVars, chat, gen, rec>>

\* auth after User.findById settled
AuthLookup(c, resolved) ==
    /\ web.reqs[c].pc = "lookup"
    /\ web' = [web EXCEPT !.reqs[c] = AuthUser(@, resolved)]
    /\ UNCHANGED <<recoverVars, leadVars, kpi, img, apiVars, chat, gen, rec>>

\* next() of a route behind auth: the handler runs up to
\* await Website.findOne({_id, userId: req.user.id})
WebsiteFind(c) ==
    /\ web.reqs[c].pc = "next"
    /\ web.reqs[c].route # "admin"
    /\ web' = [web EXCEPT !.reqs[c] =
                 IF web.site.userId = @.user
                 THEN [@ EXCEPT !.pc = "found", !.ran = TRUE,
                                !.loaded = web.site]
                 ELSE [@ EXCEPT !.pc = "done", !.ran = TRUE, !.status = 404]]
    /\ UNCHANGED <<recoverVars, leadVars, kpi, img, apiVars, chat, gen, rec>>

\* the handler writes the loaded document, saves it and answers
WebsiteWrite(c, route, website) ==
    /\ web.reqs[c].pc = "found"
    /\ web.reqs[c].route = route
    /\ web' = [web EXCEPT
                 !.site = SaveWebsite(@, web.reqs[c].loaded, website),
                 !.reqs[c] = [@ EXCEPT !.pc = "done", !.status = 200,
                                       !.loaded = NoWebsite,
                                       !.body = NoUpdates]]
    /\ UNCHANGED <<recoverVars, leadVars, kpi, img, apiVars, chat, gen, rec>>

\* PUT /api/websites/:id
WebsiteUpdate(c) ==
    WebsiteWrite(c, "update",
                 ObjectAssign(web.reqs[c].loaded, web.reqs[c].body))

\* POST /api/websites/:id/publish
WebsitePublish(c) ==
    WebsiteWrite(c, "publish",
                 [web.reqs[c].loaded EXCEPT !.status = "published"])

\* POST /api/websites/:id/unpublish
WebsiteUnpublish(c) ==
    WebsiteWrite(c, "unpublish",
                 [web.reqs[c].loaded EXCEPT !.status = "draft"])

\* POST /api/websites/:id/regenerate, the model call answering
WebsiteRegenerate(c) ==
    WebsiteWrite(c, "regenerate",
                 [web.reqs[c].loaded EXCEPT !.content = "c2"])

\* POST /api/websites/:id/regenerate, the model call throwing
WebsiteRegenerateFailed(c) ==
    /\ web.reqs[c].pc = "found"
    /\ web.reqs[c].route = "regenerate"
    /\ web' = [web EXCEPT !.reqs[c] =
                 [@ EXCEPT !.pc = "done", !.status = 500,
                           !.loaded = NoWebsite]]
    /\ UNCHANGED <<recoverVars, leadVars, kpi, img, apiVars, chat, gen, rec>>

\* next() of auth inside adminAuth: the role check, then the handler
AdminNext(c) ==
    /\ web.reqs[c].pc = "next"
    /\ web.reqs[c].route = "admin"
    /\ web' = [web EXCEPT !.reqs[c] =
                 IF Role(@.user) # "admin"
                 THEN [@ EXCEPT !.pc = "done", !.status = 403]
                 ELSE [@ EXCEPT !.pc = "done", !.ran = TRUE, !.status = 200]]
    /\ UNCHANGED <<recoverVars, leadVars, kpi, img, apiVars, chat, gen, rec>>

WebNext ==
    \/ \E c \in Connections, token \in Tokens, route \in Routes,
          body \in WebsiteBodies \cup {NoUpdates} : Visit(c, token, route, body)
    \/ \E c \in Connections : AuthToken(c)
    \/ \E c \in Connections, resolved \in BOOLEAN : AuthLookup(c, resolved)
    \/ \E c \in Connections : WebsiteFind(c)
    \/ \E c \in Connections : WebsiteUpdate(c)
    \/ \E c \in Connections : WebsitePublish(c)
    \/ \E c \in Connections : WebsiteUnpublish(c)
    \/ \E c \in Connections : WebsiteRegenerate(c)
    \/ \E c \in Connections : WebsiteRegenerateFailed(c)
    \/ \E c \in Connections : AdminNext(c)

WebSpec == WebInit /\ [][WebNext]_vars

-----------------------------------------------------------------------------
(* Specification of the image generation: one request on one of the two
   routes asks for some images; each call of the chain takes any outcome. *)

GenInit ==
    /\ EngineIdle /\ kpi = NoKpi /\ img = NoRun /\ ApiIdle
    /\ chat = NoChat /\ web = NoWeb /\ rec = NoRec
    /\ \E route \in ImageRoutes, asked \in 1..MaxAsked :
           gen = [NoGen EXCEPT !.pc = "route", !.route = route, !.asked = asked]

\* the handler destructures the body and calls generateImage, which calls
\* generateWithGeminiImagen
CallGenerateImage ==
    /\ gen.pc = "route"
    /\ gen' = [gen EXCEPT !.pc = "gemini",
                          !.numberOfImages = Forwarded(gen.route, gen.asked)]
    /\ UNCHANGED <<recoverVars, leadVars, kpi, img, apiVars, chat, web, rec>>

\* await model.generateContent(...) of one turn of the loop
GeminiCall(answered) ==
    /\ gen.pc = "gemini"
    /\ Len(gen.generatedImages) < gen.numberOfImages
    /\ gen' = [gen EXCEPT !.pc = "fallback", !.caught = ~answered]
    /\ UNCHANGED <<recoverVars, leadVars, kpi, img, apiVars, chat, web, rec>>

\* await this.generateWithFallbackService(prompt, options), in the try block
\* or in its catch block, and the push that follows it
FallbackCall(fetched, placeholder) ==
    /\ gen.pc = "fallback"
    /\ LET fallbackImage == GenerateWithFallbackService(fetched, placeholder)
       IN  gen' =
               IF fallbackImage # "threw"
               THEN [gen EXCEPT !.pc = "gemini",
                                !.generatedImages = Append(@, fallbackImage)]
               ELSE IF gen.caught
               THEN [gen EXCEPT !.pc = "done", !.status = 500,
                                !.placeholderFailed = TRUE]
               ELSE [gen EXCEPT !.caught = TRUE, !.placeholderFailed = TRUE]
    /\ UNCHANGED <<recoverVars, leadVars, kpi, img, apiVars, chat, web, rec>>

\* return {generatedImages}
ReturnGenerated ==
    /\ gen.pc = "gemini"
    /\ Len(gen.generatedImages) = gen.numberOfImages
    /\ gen' = [gen EXCEPT !.pc = "write", !.j = 1]
    /\ UNCHANGED <<recoverVars, leadVars, kpi, img, apiVars, chat, web, rec>>

\* one turn of the loop of generateImage on an image that has bytes
WriteFile(written) ==
    /\ gen.pc = "write"
    /\ gen.j <= Len(gen.generatedImages)
    /\ HasBytes(gen.generatedImages[gen.j])
    /\ gen' = IF written
              THEN [gen EXCEPT !.j = @ + 1, !.images = @ + 1]
              ELSE [gen EXCEPT !.pc = "done", !.status = 500,
                               !.writeFailed = TRUE]
    /\ UNCHANGED <<recoverVars, leadVars, kpi, img, apiVars, chat, web, rec>>

\* one turn of the loop of generateImage on an image without bytes
SkipImage ==
    /\ gen.pc = "write"
    /\ gen.j <= Len(gen.generatedImages)
    /\ ~HasBytes(gen.generatedImages[gen.j])
    /\ gen' = [gen EXCEPT !.j = @ + 1]
    /\ UNCHANGED <<recoverVars, leadVars, kpi, img, apiVars, chat, web, rec>>

\* return {success: true, images: generatedImages, ...}; the route answers
ReturnGeneratedImages ==
    /\ gen.pc = "write"
    /\ gen.j > Len(gen.generatedImages)
    /\ gen' = [gen EXCEPT !.pc = "done", !.status = 200]
    /\ UNCHANGED <<recoverVars, leadVars, kpi, img, apiVars, chat, web, rec>>

GenNext ==
    \/ CallGenerateImage
    \/ \E answered \in BOOLEAN : GeminiCall(answered)
    \/ \E fetched \in FetchOutcomes, placeholder \in BOOLEAN :
           FallbackCall(fetched, placeholder)
    \/ ReturnGenerated
    \/ \E written \in BOOLEAN : WriteFile(written)
    \/ SkipImage
    \/ ReturnGeneratedImages

GenSpec == GenInit /\ [][GenNext]_vars

-----------------------------------------------------------------------------
(* Specification of the image record: two connections send
   generate-from-prompt requests about one record; each write of the record
   resolves or rejects. *)

RecInit ==
    /\ EngineIdle /\ kpi = NoKpi /\ img = NoRun /\ ApiIdle
    /\ chat = NoChat /\ web = NoWeb /\ gen = NoGen
    /\ rec = NoRec

\* the request arrives and passes the validation
Prompt(c, imageId) ==
    /\ rec.reqs[c].pc \in {"idle", "done"}
    /\ rec.started < MaxPrompts
    /\ rec' = [rec EXCEPT
                 !.started = @ + 1,
                 !.reqs[c] = [pc |-> "marking", imageId |-> imageId,
                              status |-> 0]]
    /\ UNCHANGED <<recoverVars, leadVars, kpi, img, apiVars, chat, web, gen>>

\* if (imageId) await Image.findOneAndUpdate(..., {status: 'generating'});
\* then the call of the image service throws and the catch block is entered
MarkGenerating(c, resolved) ==
    /\ rec.reqs[c].pc = "marking"
    /\ rec' = [rec EXCEPT
                 !.status = FindOneAndUpdate(@, rec.reqs[c].imageId,
                                             "generating", resolved),
                 !.reqs[c].pc = "failing"]
    /\ UNCHANGED <<recoverVars, leadVars, kpi, img, apiVars, chat, web, gen>>

\* if (req.body.imageId) await Image.findOneAndUpdate(..., {status: 'failed'});
\* res.status(500)
MarkFailed(c, resolved) ==
    /\ rec.reqs[c].pc = "failing"
    /\ rec' = [rec EXCEPT
                 !.status = FindOneAndUpdate(@, rec.reqs[c].imageId,
                                             "failed", resolved),
                 !.reqs[c].pc = "done",
                 !.reqs[c].status = 500]
    /\ UNCHANGED <<recoverVars, leadVars, kpi, img, apiVars, chat, web, gen>>

RecNext ==
    \/ \E c \in Connections, imageId \in ImageIds : Prompt(c, imageId)
    \/ \E c \in Connections, resolved \in BOOLEAN : MarkGenerating(c, resolved)
    \/ \E c \in Connections, resolved \in BOOLEAN : MarkFailed(c, resolved)

RecSpec == RecInit /\ [][RecNext]_vars

-----------------------------------------------------------------------------
(* Claims on the reply recovery, checked under Spec *)

RecoverDone == pc = "done" /\ svc \in {"marketing", "analytics"}

FallbackNotes ==
    {"AI-Generated Campaign", "Could not parse AI response", "Invalid JSON response"}

\* C1: parseJSONResponse of the marketing and of the analytics service never
\* throws: for every reply, the undefined one included, the caller gets a
\* parsed object or one of the fallback objects.
C1_ParseNeverThrows ==
    RecoverDone =>
        \/ outcome.kind = "Parsed" /\ outcome.value.t = "obj"
        \/ outcome.kind = "Fallback" /\ outcome.note \in FallbackNotes

\* C1 witness: the marketing service was handed an undefined reply and gave
\* its fallback object.
C1_Witness ==
    /\ pc = "done"
    /\ svc = "marketing"
    /\ ~reply.defined
    /\ outcome = MarketingFallback(None)

\* C2: in every service method that parses model output, a reply that cannot
\* be parsed ends in a usable value given to the caller; no parse failure
\* reaches the caller as an error.
C2_NoParseFailurePropagates ==
    (pc = "done" /\ reply.defined) => outcome.kind \in {"Parsed", "Fallback"}

\* C3: for every JSON object v, recover applied to json(v) in a markdown JSON
\* code fence gives Parsed with a value equal to v, also when strings of v
\* hold backticks or characters of the range 0x7F-0x9F.
C3_FencedRoundTrip ==
    \A v \in JsonObjects :
        (RecoverDone /\ reply = Some(Fenced(Stringify(v)))) => outcome = Parsed(v)

C5_EmbeddedObjectParsed ==
    \A v \in JsonObjects, p \in Prefixes, x \in Suffixes :
        (RecoverDone /\ reply = Some(p \o Stringify(v) \o x)) => outcome = Parsed(v)

\* C6: recover first attempts a strict parse of the unmodified candidate and
\* returns that value on success; the control-character cleanup runs only
\* after that parse failed and is followed by exactly one retry.
C6_StrictParseThenOneRetry ==
    (RecoverDone /\ candidate.defined) =>
        LET strict == JSONParse(candidate.text)
        IN  /\ attempts # <<>>
            /\ attempts[1] = candidate.text
            /\ strict.ok => (attempts = <<candidate.text>> /\ outcome = Parsed(strict.v))
            /\ ~strict.ok =>
                   attempts = <<candidate.text, RemoveControlChars(candidate.text)>>

-----------------------------------------------------------------------------
(* Claims on the engagement engine *)

Score == lead.engagement.engagementScore

InRange(score) == score.d > 0 /\ RLeq(RInt(0), score) /\ RLeq(score, RInt(100))

\* C7: after any sequence of addActivity calls on a Lead with non-negative
\* integer counters the stored engagementScore lies in [0, 100], also when
\* totalEmails = 0 or emailsOpened = 0.  (LeadSpec)
C7_ScoreInRange == InRange(Score)

\* C7 witness: activities were recorded on a Lead that was never sent an
\* email yet opened one and clicked a link.
C7_Witness ==
    /\ Len(calls) >= 2
    /\ lead.engagement.totalEmails = 0
    /\ lead.engagement.emailsOpened > 0
    /\ lead.engagement.linksClicked > 0
    /\ RLeq(RInt(1), Score)

WithOpened(doc, o) == [doc EXCEPT !.engagement.emailsOpened = o]

ScoreOf(doc) == CalculateEngagementScore(doc, now).engagement.engagementScore

MoreOpens == (lead.engagement.emailsOpened + 1)..(MaxCount + 1)

\* C8 as stated: computeScore is non-decreasing in emailsOpened, all other
\* fields equal.  (ScoreSpec)
C8_ScoreMonotoneInOpens ==
    pc = "done" => \A o \in MoreOpens : RLeq(Score, ScoreOf(WithOpened(lead, o)))

\* C8 as amended: the email component of computeScore is non-decreasing in
\* emailsOpened, and so is computeScore itself on states with
\* linksClicked = 0.  (ScoreSpec)
C8_EmailComponentMonotone ==
    pc = "done" =>
        \A o \in MoreOpens :
            /\ RLeq(EmailEngagement(lead), EmailEngagement(WithOpened(lead, o)))
            /\ lead.engagement.linksClicked = 0 =>
                   RLeq(Score, ScoreOf(WithOpened(lead, o)))

\* C8 witness: a scored Lead with emails sent and no click, for which one
\* more open raises the score.
C8_Witness ==
    /\ pc = "done"
    /\ lead.engagement.totalEmails > 0
    /\ lead.engagement.linksClicked = 0
    /\ lead.engagement.emailsOpened = 1
    /\ ~RLeq(ScoreOf(WithOpened(lead, 2)), Score)

\* the score of the specification, over the common denominator 7 * sent * opened
ExpectedDen ==
    7 * (IF lead.engagement.totalEmails > 0 THEN lead.engagement.totalEmails ELSE 1)
      * (IF lead.engagement.emailsOpened > 0 THEN lead.engagement.emailsOpened ELSE 1)

ExpectedNum ==
    LET sent == lead.engagement.totalEmails
        opened == lead.engagement.emailsOpened
        clicked == lead.engagement.linksClicked
        days == now - lead.engagement.lastEmailOpened
        present == Cardinality({f \in ProfileFields :
                       \/ f = "firstName" /\ lead.firstName
                       \/ f = "lastName" /\ lead.lastName
                       \/ f = "phone" /\ lead.phone
                       \/ f = "company" /\ lead.company
                       \/ f = "jobTitle" /\ lead.jobTitle})
        email == IF sent > 0 THEN (40 * opened * ExpectedDen) \div sent ELSE 0
        click == IF opened > 0 THEN (30 * clicked * ExpectedDen) \div opened ELSE 0
        recency == IF lead.engagement.lastEmailOpened = NoDate \/ days >= 140 THEN 0
                   ELSE ((140 - days) * ExpectedDen) \div 7
        sum == email + click + recency + 2 * present * ExpectedDen
    IN  IF sum > 100 * ExpectedDen THEN 100 * ExpectedDen
        ELSE IF sum < 0 THEN 0
        ELSE sum

IsScenario ==
    /\ lead.engagement.totalEmails = 10
    /\ lead.engagement.emailsOpened = 5
    /\ lead.engagement.linksClicked = 2
    /\ lead.engagement.lastEmailOpened = now - 3
    /\ lead.firstName /\ lead.lastName /\ lead.company
    /\ ~lead.phone /\ ~lead.jobTitle

\* C9: computeScore is the sum of opened/sent*40 (sent > 0), clicked/opened*30
\* (opened > 0), max(0, 20 - days/7) (an open recorded) and 2 per present
\* profile field, clamped to [0, 100]; sent = 10, opened = 5, clicked = 2,
\* 3 days since the last open and three profile fields give 20 + 12 + 137/7
\* + 6 = 403/7, which is 57.57 to two places.  (ScoreSpec)
C9_ScoreIsSumOfComponents ==
    pc = "done" =>
        /\ Score.n * ExpectedDen = ExpectedNum * Score.d
        /\ IsScenario =>
               /\ Score = [n |-> 403, d |-> 7]
               /\ 5757 * Score.d <= 100 * Score.n
               /\ 100 * Score.n < 5758 * Score.d

\* C9 witness: the worked example was scored.
C9_Witness == pc = "done" /\ IsScenario /\ Score.n = 403

\* C10: every addActivity call appends exactly one Activity, of the type and
\* at the instant of the call, at the end of the log and leaves the earlier
\* entries as they were; nothing else changes the log.  (LeadSpec)
C10_LogAppendOnly ==
    [][ /\ calls' = calls => lead'.activities = lead.activities
        /\ calls' # calls =>
               /\ Len(lead'.activities) = Len(lead.activities) + 1
               /\ SubSeq(lead'.activities, 1, Len(lead.activities)) = lead.activities
               /\ lead'.activities[Len(lead'.activities)] =
                      [type |-> calls'[Len(calls')], timestamp |-> now]
      ]_vars

\* C10 witness: two activities of different types sit in the log in the order
\* of their calls.
C10_Witness ==
    /\ Len(calls) >= 2
    /\ Len(lead.activities) >= 2
    /\ lead.activities[1].type = calls[1]
    /\ lead.activities[2].type = calls[2]
    /\ calls[1] # calls[2]

\* the type of the activity the step records
Recorded == calls'[Len(calls')]

\* C11: recording an activity changes the counters by its kind alone:
\* email_sent adds one to totalEmails; email_opened adds one to emailsOpened
\* and sets lastEmailOpened to the present instant; link_clicked adds one to
\* linksClicked; every other kind leaves the three counters and
\* lastEmailOpened as they were.  (LeadSpec)
C11_CountersByKind ==
    [][calls' # calls =>
        LET e == lead.engagement
            f == lead'.engagement
        IN  /\ f.totalEmails =
                   e.totalEmails + (IF Recorded = "email_sent" THEN 1 ELSE 0)
            /\ f.emailsOpened =
                   e.emailsOpened + (IF Recorded = "email_opened" THEN 1 ELSE 0)
            /\ f.linksClicked =
                   e.linksClicked + (IF Recorded = "link_clicked" THEN 1 ELSE 0)
            /\ f.lastEmailOpened =
                   (IF Recorded = "email_opened" THEN now ELSE e.lastEmailOpened)
      ]_vars

\* C11 witness: an open was recorded at a later instant than the creation,
\* then a link click, and the date of the last open is the instant of the
\* open.
C11_Witness ==
    /\ Len(calls) >= 2
    /\ calls[1] = "email_opened"
    /\ calls[2] = "link_clicked"
    /\ lead.activities[1].timestamp > 0
    /\ lead.engagement.lastEmailOpened = lead.activities[1].timestamp
    /\ lead.engagement.linksClicked >= 1

\* C12: every recorded activity ends with the score recomputed from the
\* counters as they are after the update, so that right after the call the
\* stored score is the score of the present fields.  (LeadSpec)
C12_ScoreAfterUpdate ==
    [][calls' # calls =>
        (Score.n * ExpectedDen = ExpectedNum * Score.d)'
      ]_vars

\* C12 witness: the first email was sent to a Lead that had opened one, and
\* the stored score holds the email component of the new counters.
C12_Witness ==
    /\ calls = <<"email_sent">>
    /\ lead.engagement.totalEmails = 1
    /\ lead.engagement.emailsOpened = 1
    /\ RLeq(RInt(40), Score)

\* the number of recorded activities of a type
Calls(type) == Cardinality({i \in 1..Len(calls) : calls[i] = type})

\* the counters are those of a Lead created with zero counters
FromZero ==
    /\ lead.engagement.totalEmails = Calls("email_sent")
    /\ lead.engagement.emailsOpened = Calls("email_opened")

\* C13: on a Lead created with both counters at zero, after any sequence of
\* recorded activities the opens do not exceed the emails sent.  (LeadSpec)
C13_OpensAtMostSent ==
    FromZero => lead.engagement.emailsOpened <= lead.engagement.totalEmails

\* the text the object is looked for in
Cleaned == StripFences(Trim(reply.text))

\* t lies in s with no opening brace before it and no closing brace after it
OuterSpan(t, s) ==
    \E a \in 1..Len(s) :
        /\ a + Len(t) - 1 <= Len(s)
        /\ t = SubSeq(s, a, a + Len(t) - 1)
        /\ \A i \in 1..(a - 1) : s[i] # "{"
        /\ \A i \in (a + Len(t))..Len(s) : s[i] # "}"

IsTwoObjects(s) ==
    \E v1, v2 \in PairedObjects, g \in Gaps : s = TwoObjects(v1, g, v2)

\* C20: the candidate is the span from the first opening brace to the last
\* closing brace of the cleaned reply, so a reply of two objects with prose
\* between them gives one candidate over both, which does not parse: the
\* result is the fallback, never the first object alone.  (Spec)
C20_GreedyOuterSpan ==
    (RecoverDone /\ reply.defined) =>
        /\ candidate.defined =>
               /\ Len(candidate.text) >= 2
               /\ Head(candidate.text) = "{"
               /\ candidate.text[Len(candidate.text)] = "}"
               /\ OuterSpan(candidate.text, Cleaned)
        /\ ~candidate.defined =>
               ~\E i, j \in 1..Len(Cleaned) :
                    i < j /\ Cleaned[i] = "{" /\ Cleaned[j] = "}"
        /\ IsTwoObjects(reply.text) =>
               /\ candidate = Some(reply.text)
               /\ outcome.kind = "Fallback"

\* C20 witness: the analytics service was handed two objects with prose
\* between them and gave its fallback for an invalid candidate.
C20_Witness ==
    /\ RecoverDone
    /\ svc = "analytics"
    /\ reply.defined
    /\ IsTwoObjects(reply.text)
    /\ Len(reply.text) > 5
    /\ candidate = reply
    /\ outcome.kind = "Fallback"
    /\ outcome.note = "Invalid JSON response"

\* the endpoint comparison over the last min(3, n) values of a history of n
Classified(history) ==
    LET n == Len(history)
        w == IF n < 3 THEN n ELSE 3
        newest == history[n]
        oldest == history[n - w + 1]
    IN  IF newest > oldest THEN "increasing"
        ELSE IF newest < oldest THEN "decreasing"
        ELSE "stable"

\* C15: after every KPI value update the trend of the KPI is the comparison
\* of the newest value with the oldest of the last min(3, n) values:
\* increasing, decreasing or stable; one value alone gives stable, and
\* 10, 12, 9 gives decreasing.  It holds of the document every handler
\* answers with, and of the stored KPI when no two updates overlapped.
\* (KpiSpec)
C15_TrendOfWindow ==
    /\ \A c \in KpiClients :
           kpi.mem[c].pc = "done" =>
               LET doc == kpi.mem[c].doc
               IN  /\ doc.history # <<>>
                   /\ doc.currentValue = doc.history[Len(doc.history)]
                   /\ doc.trend = Classified(doc.history)
                   /\ Len(doc.history) = 1 => doc.trend = "stable"
                   /\ doc.history = <<10, 12, 9>> => doc.trend = "decreasing"
    /\ (~kpi.overlap /\ kpi.stored.history # <<>>) =>
           kpi.stored.trend = Classified(kpi.stored.history)

\* C15 witness: four updates one after the other; the window of the last
\* three values decides, the first value does not.
C15_Witness ==
    /\ ~kpi.overlap
    /\ kpi.stored.history = <<9, 10, 12, 9>>
    /\ kpi.stored.trend = "decreasing"
    /\ \E c \in KpiClients :
           kpi.mem[c].pc = "done" /\ kpi.mem[c].doc = kpi.stored

\* the types whose generateImage call returned at least one image
Succeeded ==
    {ImageTypes[k] : k \in {j \in 1..Len(img.results) :
                              ~img.results[j].threw /\ img.results[j].images > 0}}

\* C19: generateWebsiteImages goes through hero, about, services, contact in
\* this order whatever the earlier calls did, does not fail when an image
\* fails, and returns success with exactly the types whose generation
\* succeeded as keys.  (ImagesSpec)
C19_ImagesBestEffort ==
    /\ Len(img.attempted) <= Len(ImageTypes)
    /\ img.attempted = SubSeq(ImageTypes, 1, Len(img.attempted))
    /\ Len(img.results) = Len(img.attempted)
    /\ img.pc = "threw" => ~img.data /\ img.attempted = <<>>
    /\ img.pc = "returned" =>
           /\ img.attempted = ImageTypes
           /\ img.images = Succeeded

\* C19 witness: the hero image threw, the services reply held no image, and
\* the run returned the two other images.
C19_Witness ==
    /\ img.pc = "returned"
    /\ img.results[1].threw
    /\ ~img.results[3].threw /\ img.results[3].images = 0
    /\ img.images = {"about", "contact"}

\* the Lead the collection holds; before its creation, the new Lead of the
\* lifecycle: score 0, counters 0, empty log
Stored == IF db.exists THEN db.doc ELSE NoLead

EngagementState(doc) ==
    << doc.engagement.totalEmails, doc.engagement.emailsOpened,
       doc.engagement.linksClicked, doc.engagement.lastEmailOpened,
       doc.engagement.engagementScore, doc.activities >>

\* C14: the engagement state of a Lead (counters, lastEmailOpened,
\* engagementScore, activity log) changes only by recorded activities: a step
\* of the create or of the update handler that stores another engagement
\* state is a save of a document on which the handler called addActivity.
\* (ApiSpec)
C14_EngagementOnlyByRecord ==
    [][EngagementState(Stored') # EngagementState(Stored) =>
          \E c \in Connections :
              /\ reqs'[c] # reqs[c]
              /\ reqs'[c].recorded # <<>>
      ]_vars

\* the kinds a request recorded are all in the stored log
Persisted(kinds) ==
    \A i \in 1..Len(kinds) :
        \E j \in 1..Len(db.doc.activities) : db.doc.activities[j].type = kinds[i]

\* C16: every kind of the Activity enumeration is accepted, the four kinds
\* the routes record themselves included: a handler that recorded activities
\* of such kinds and saved the Lead answered with success, and the activities
\* are stored.  (ApiSpec)
C16_EveryKindAccepted ==
    \A c \in Connections :
        ( /\ reqs[c].pc = "done"
          /\ reqs[c].recorded # <<>>
          /\ \A i \in 1..Len(reqs[c].recorded) : reqs[c].recorded[i] \in SpecKinds )
        => /\ reqs[c].status \in {200, 201}
           /\ Persisted(reqs[c].recorded)

\* C17: two activity requests on one Lead that both load it before either
\* saves can lose an update; as long as no activity request loads the Lead
\* while another holds it unsaved, the stored counters and the length of the
\* stored log are those of the acknowledged activities.  (ApiSpec)
C17_SerializedKeepsUpdates ==
    (db.exists /\ ~api.overlap) => Tally(db.doc) = api.expected

\* C17 witness: both connections loaded the Lead, both recorded an email
\* sent and were answered 200, and the stored counter counts one of the two.
C17_Witness ==
    /\ db.exists
    /\ api.overlap
    /\ \A c \in Connections :
           /\ reqs[c].pc = "done"
           /\ reqs[c].op = "activity"
           /\ reqs[c].status = 200
           /\ reqs[c].recorded = <<"email_sent">>
    /\ db.doc.engagement.totalEmails + 1 = api.expected.totalEmails

\* C18: once an activity was recorded on a stored Lead, its last-activity
\* date is not earlier than the timestamp of any entry of its log.  (ApiSpec)
C18_LastActivityBounds ==
    (db.exists /\ db.doc.lifecycle.lastActivity # NoDate) =>
        \A i \in 1..Len(db.doc.activities) :
            db.doc.lifecycle.lastActivity >= db.doc.activities[i].timestamp

\* what the other of the two parseJSONResponse gives for the same reply
OtherOutcome ==
    IF svc = "marketing"
    THEN AnalyticsParseJSONResponse(reply).outcome
    ELSE MarketingParseJSONResponse(reply).outcome

\* C30: the parseJSONResponse of the marketing service and that of the
\* analytics service agree on every reply: one gives a parsed object exactly
\* when the other does, and then the two objects are equal.  (Spec)
C30_ParsersAgree ==
    RecoverDone =>
        /\ (outcome.kind = "Parsed") <=> (OtherOutcome.kind = "Parsed")
        /\ (outcome.kind = "Parsed" /\ OtherOutcome.kind = "Parsed") =>
               outcome.value = OtherOutcome.value

\* C25: with the clock held fixed, after any sequence of creates, updates and
\* recorded activities the stored engagementScore is the score of the fields
\* of the stored Lead, a changed profile field included.  (ApiSpec)
C25_StoredScoreCurrent ==
    db.exists =>
        db.doc.engagement.engagementScore =
            CalculateEngagementScore(db.doc, now).engagement.engagementScore

\* C26: a create is all or nothing: a create that was answered with an error
\* status stored no Lead.  The handler calls addActivity only after its first
\* save stored the Lead, so a finished create with a recorded activity has
\* stored one.  (ApiSpec)
C26_CreateAllOrNothing ==
    \A c \in Connections :
        (reqs[c].op = "create" /\ reqs[c].pc = "done" /\ reqs[c].status # 201) =>
            reqs[c].recorded = <<>>

-----------------------------------------------------------------------------
(* Claims on the chatbot, checked under ChatSpec *)

\* no call on the session is between its push and the model's answer
Quiet(s) == \A u \in ChatUsers : chat.call[u].sessionId # s

\* C21: after any sequence of processMessage calls on a session, succeeding
\* or failing at the model call, the stored history of the session holds at
\* most 20 messages and its first element is the system prompt
C21_HistoryBounded ==
    \A s \in SessionIds :
        (Quiet(s) /\ chat.conversationHistory[s] # <<>>) =>
            /\ Len(chat.conversationHistory[s]) <= HistoryLimit
            /\ chat.conversationHistory[s][1].role = "system"

\* C27: no message sent and no history deleted by one user feeds to the
\* model, or removes, conversation content that another user recorded
C27_SessionsIsolated == ~chat.fed /\ ~chat.removed

-----------------------------------------------------------------------------
(* Claims on the protected routes, checked under WebSpec *)

\* a token is present, verifies, and names a user of the collection
TokenResolves(token) ==
    HasToken(token) /\ Verifies(token) /\ token.userId \in WebUsers

\* the middleware has finished with the request
Judged(request) == request.pc \notin {"idle", "auth", "lookup"}

\* C24: auth calls next() only for a token that is present, verifies and
\* resolves to an existing user; otherwise it answers 401 and the handler
\* never runs; for each request exactly one of the two happens
C24_AuthGate ==
    \A c \in Connections :
        LET request == web.reqs[c]
        IN  /\ request.passed => TokenResolves(request.token)
            /\ request.ran => request.passed
            /\ Judged(request) => (request.passed <=> request.status # 401)
            /\ (Judged(request) /\ ~TokenResolves(request.token)) =>
                   (request.status = 401 /\ ~request.ran)

C24_Witness ==
    \E c, d \in Connections :
        /\ web.reqs[c].pc = "done" /\ web.reqs[c].ran
        /\ web.reqs[c].status = 200
        /\ web.reqs[d].pc = "done" /\ web.reqs[d].status = 401
        /\ web.reqs[d].token = [kind |-> "signed", userId |-> "u3"]

\* C28: no update, publish, unpublish or regenerate of an authenticated user
\* changes the owner: the website keeps the userId of the user who created it
C28_OwnerKept == web.site.userId = web.creator

-----------------------------------------------------------------------------
(* Claims on the image generation, checked under GenSpec *)

\* C22: the chain ends with image bytes for every requested image:
\* generateImage returns exactly numberOfImages images whenever the
\* placeholder generation and the file writes succeed
C22_ChainYieldsAll ==
    (gen.pc = "done" /\ ~gen.placeholderFailed /\ ~gen.writeFailed) =>
        (gen.status = 200 /\ gen.images = gen.numberOfImages)

\* C23: no request makes generateImage generate more than 4 images
C23_AtMostFour == Len(gen.generatedImages) <= ImageCap

-----------------------------------------------------------------------------
(* Claims on the image record, checked under RecSpec *)

\* C29: once the handlers of the requests that carry the imageId of the
\* record have responded, the record is not left in status generating
C29_NeverLeftGenerating ==
    (/\ \A c \in Connections : rec.reqs[c].pc \in {"idle", "done"}
     /\ \E c \in Connections :
            rec.reqs[c].pc = "done" /\ rec.reqs[c].imageId = "own") =>
        rec.status # "generating"

====
